---- MODULE Spec2Model ----
(***************************************************************************)
(* A model of models/gin/model.py of egem-torch: the hierarchical encoder  *)
(* EGeoGNNModel (mask_attr, forward) and the pretraining wrapper EGEM      *)
(* (_get_*_loss, compute_loss, forward).                                   *)
(*                                                                         *)
(* Tensors are functions over 0..n-1 (the source's 0-based indexing).  A   *)
(* 2-d categorical tensor is an array of rows, each row an array of field  *)
(* values.  Floating-point scalars are small naturals.  A hidden           *)
(* representation has one integer per row (latent_size collapsed to one    *)
(* coordinate).  An Optional value is a set of at most one element: None is *)
(* the empty set and Some(v) holds v.                                      *)
(***************************************************************************)
EXTENDS Integers, Sequences, FiniteSets, TLC

VARIABLES
    model,   \* the constructed module: its configuration (self.*)
    batch,   \* the caller's objects: the tensors and arguments of a call
    ret      \* what the last call returned or raised

vars == <<model, batch, ret>>

None == {}
Some(v) == {v}
The(o) == CHOOSE v \in o : TRUE

\* ------------------------------------------------------------------ bounds

\* continuous scalars (lengths, angles, dihedrals) range over 0..MaxVal
MaxVal == 1

\* ------------------------------------------------------------- array helpers

Rows(a) == Cardinality(DOMAIN a)

Arr(n, S) == [0..(n - 1) -> S]

RECURSIVE SumOver(_, _)
SumOver(f, S) ==
    IF S = {} THEN 0
    ELSE LET e == CHOOSE e \in S : TRUE IN f[e] + SumOver(f, S \ {e})

\* ------------------------------------------------ datasets.featurizer (absent)

\* vocabulary size of each categorical feature name; the last slot of each
\* vocabulary is the reserved mask token
FeatureVocab ==
    [atomic_num |-> 3, chiral_tag |-> 2, bond_dir |-> 2, is_in_ring |-> 3]

get_feature_dims(names) == [i \in DOMAIN names |-> FeatureVocab[names[i]]]

\* ------------------------------------------------- EGeoGNNModel.mask_attr

ArgNames == {"x", "bond_attr", "bond_lengths", "bond_angles", "dihedral_angles"}

\* copy.deepcopy of the five arguments: the heap gains five fresh objects
\* "_x", ... holding equal values, and the locals refer to the fresh objects
CopyName ==
    [x |-> "_x", bond_attr |-> "_bond_attr", bond_lengths |-> "_bond_lengths",
     bond_angles |-> "_bond_angles", dihedral_angles |-> "_dihedral_angles"]

\* _x = x, ... : the locals refer to the caller's own objects
alias_args(heap) == [heap |-> heap, ref |-> [a \in ArgNames |-> a]]

deepcopy_args(heap) ==
    [heap |-> [n \in ArgNames \cup {CopyName[a] : a \in ArgNames} |->
                  IF n \in ArgNames THEN heap[n]
                  ELSE heap[CHOOSE a \in ArgNames : n = CopyName[a]]],
     ref  |-> CopyName]

\* t[:, i][indices] = value : the write goes through the column view into t
SetColumn(t, i, indices, value) ==
    [r \in DOMAIN t |->
        IF r \in The(indices) THEN [t[r] EXCEPT ![i] = value] ELSE t[r]]

\* the statement t[indices] = value left out
SetRowsSkipped(t, indices, value) == t

\* t[indices] = value
SetRows(t, indices, value) ==
    [r \in DOMAIN t |-> IF r \in The(indices) THEN value ELSE t[r]]

\* the loop below writing vocab[i], one past the last vocabulary slot
RECURSIVE MaskColumnsPastVocab(_, _, _, _, _)
MaskColumnsPastVocab(t, i, ncols, indices, vocab_sizes) ==
    IF i >= ncols THEN t
    ELSE MaskColumnsPastVocab(
            IF indices # None THEN SetColumn(t, i, indices, vocab_sizes[i]) ELSE t,
            i + 1, ncols, indices, vocab_sizes)

\* for i in range(t.shape[1]): if indices is not None: t[:, i][indices] = vocab[i] - 1
RECURSIVE MaskColumns(_, _, _, _, _)
MaskColumns(t, i, ncols, indices, vocab_sizes) ==
    IF i >= ncols THEN t
    ELSE MaskColumns(
            IF indices # None THEN SetColumn(t, i, indices, vocab_sizes[i] - 1) ELSE t,
            i + 1, ncols, indices, vocab_sizes)

\* number of columns of a 2-d tensor (shape[1])
Shape1(t, names) == Rows(names)

\* the heap after mask_attr and the five objects it returns
mask_attr(self, heap, masked_atom_indices, masked_bond_indices, masked_angle_indices, masked_dihedral_indices) ==
    LET c  == deepcopy_args(heap)
        h0 == c.heap
        r  == c.ref
        h1 == [h0 EXCEPT ![r.x] =
                 MaskColumns(h0[r.x], 0, Shape1(h0[r.x], self.atom_names),
                             masked_atom_indices, get_feature_dims(self.atom_names))]
        h2 == [h1 EXCEPT ![r.bond_attr] =
                 MaskColumns(h1[r.bond_attr], 0, Shape1(h1[r.bond_attr], self.bond_names),
                             masked_bond_indices, get_feature_dims(self.bond_names))]
        h3 == IF masked_bond_indices # None
              THEN [h2 EXCEPT ![r.bond_lengths] =
                       SetRows(h2[r.bond_lengths], masked_bond_indices, 0)]
              ELSE h2
        h4 == IF masked_angle_indices # None
              THEN [h3 EXCEPT ![r.bond_angles] =
                       SetRows(h3[r.bond_angles], masked_angle_indices, 0)]
              ELSE h3
        h5 == IF masked_dihedral_indices # None
              THEN [h4 EXCEPT ![r.dihedral_angles] =
                       SetRows(h4[r.dihedral_angles], masked_dihedral_indices, 0)]
              ELSE h4
    IN [heap |-> h5,
        out  |-> [a \in ArgNames |-> h5[r[a]]]]

\* 0-based array of the elements of a sequence
A0(s) == [i \in 0..(Len(s) - 1) |-> s[i + 1]]

\* list.append(v) and list[-1] on a 0-based list
append(list, v) == [i \in 0..Rows(list) |-> IF i < Rows(list) THEN list[i] ELSE v]
last(list) == list[Rows(list) - 1]

\* the caller's five tensors as heap objects
CallerHeap(b) == [a \in ArgNames |-> b[a]]

\* the caller's objects as a call leaves them
AfterCall(b, heap) == [f \in DOMAIN b |-> IF f \in ArgNames THEN heap[f] ELSE b[f]]

\* ------------------------------------------- models/gin/encoder.py (absent)
\* The layers are fixed functions of their parameters; a layer instance is
\* named by the attribute that owns it and its position in that list.

Inst(name, layer_id) == [name |-> name, layer_id |-> layer_id]

LayerNames ==
    <<"init_atom_embedding", "init_bond_embedding", "init_bond_float_rbf",
      "init_bond_angle_float_rbf", "bond_embedding_list", "bond_float_rbf_list",
      "bond_angle_float_rbf_list", "dihedral_angle_float_rbf_list",
      "atom_bond_block_list", "bond_angle_block_list", "angle_dihedral_block_list",
      "Blr_mlp", "Bar_mlp", "Dar_mlp", "Adc_mlp", "cm5_mlp", "espc_mlp",
      "hirshfeld_mlp", "npa_mlp", "wiberg_mlp">>

\* the (fixed) parameter of a layer instance
Weight(inst) ==
    (CHOOSE k \in DOMAIN LayerNames : LayerNames[k] = inst.name) + 2 * inst.layer_id

\* AtomBondEmbedding: the sum over the fields of each field's table lookup
AtomBondEmbedding(inst, input) ==
    [r \in DOMAIN input |->
        SumOver([i \in DOMAIN input[r] |-> (input[r][i] + 1) * (Weight(inst) + i)],
                DOMAIN input[r])]

\* BondFloatRBF, BondAngleFloatRBF, DihedralAngleFloatRBF: a scalar expanded
\* and projected, one row per scalar
FloatRBF(inst, input) == [r \in DOMAIN input |-> Weight(inst) + 3 * input[r]]

ReLU(v) == IF v < 0 THEN 0 ELSE v

\* EGeoGNNBlock: each edge (src -> dst) of edge_index carries the message
\* node_hidden[src] + edge_hidden[edge]; a node sums its incoming messages
\* and updates its own state with them.  edge_index[e] = <<src, dst>>.
EGeoGNNBlock(inst, last_act, node_hidden, edge_hidden, edge_index, node_batches) ==
    [n \in DOMAIN node_hidden |->
        LET incoming == {e \in DOMAIN edge_index : edge_index[e][2] = n}
            msg == [e \in incoming |-> node_hidden[edge_index[e][1]] + edge_hidden[e]]
            out == Weight(inst) * node_hidden[n] + SumOver(msg, incoming)
        IN IF last_act THEN ReLU(out) ELSE out]

\* ------------------------------------------------------ torch, torch_geometric

\* torch.arange(n)
arange(n) == [i \in 0..(n - 1) |-> i]

\* torch.repeat_interleave(values, repeats, dim=0), from element i on
RECURSIVE RepeatFrom(_, _, _)
RepeatFrom(values, repeats, i) ==
    IF i >= Rows(values) THEN <<>>
    ELSE [k \in 1..repeats[i] |-> values[i]] \o RepeatFrom(values, repeats, i + 1)

\* values tiled to the same total length (Tensor.repeat) in the place of
\* each value repeated by its own count
repeat_tiled(values, repeats) ==
    [i \in 0..(SumOver(repeats, DOMAIN repeats) - 1) |-> values[i % Rows(values)]]

repeat_interleave(values, repeats) == A0(RepeatFrom(values, repeats, 0))

\* torch_geometric.nn.global_mean_pool(x, batch, size): per-group mean, an
\* empty group giving 0
global_mean_pool(x, batch_index, size) ==
    [g \in 0..(size - 1) |->
        LET members == {a \in DOMAIN x : batch_index[a] = g}
        IN SumOver(x, members) \div (IF members = {} THEN 1 ELSE Cardinality(members))]

\* global_add_pool in the place of global_mean_pool
global_add_pool(x, batch_index, size) ==
    [g \in 0..(size - 1) |-> SumOver(x, {a \in DOMAIN x : batch_index[a] = g})]

\* --------------------------------------------------- EGeoGNNModel.forward

\* a call of an embedding or RBF layer, as the forward pass makes it
Call(inst, input) == [layer |-> inst, input |-> input]

\* layer_id != n_layers - 1
last_act(self, layer_id) == layer_id # self.n_layers - 1

\* EGeoGNNModel.__init__: the layer instances the model owns; the dihedral
\* RBFs and the angle-dihedral blocks exist only with dihedrals
OwnedLayers(self) ==
    {Inst(n, 0) : n \in {"init_atom_embedding", "init_bond_embedding",
                         "init_bond_float_rbf", "init_bond_angle_float_rbf"}}
    \cup {Inst(n, l) :
            n \in {"bond_embedding_list", "bond_float_rbf_list", "bond_angle_float_rbf_list",
                   "atom_bond_block_list", "bond_angle_block_list"}
                  \cup (IF self.without_dihedral THEN {}
                        ELSE {"dihedral_angle_float_rbf_list", "angle_dihedral_block_list"}),
            l \in 0..(self.n_layers - 1)}

\* the loop body below with the dihedral re-embedding left in: the dihedral
\* RBF is called and its output added to cur_angle_hidden
LayerWithoutDihedralKeepingDihedralRBF(self, b, m, bond_batch, st, layer_id) ==
    LET node_hidden ==
            EGeoGNNBlock(Inst("atom_bond_block_list", layer_id), last_act(self, layer_id),
                         st.node_hidden_list[layer_id], st.edge_hidden_list[layer_id],
                         b.AtomBondGraph_edges, b.atom_batch)
        cur_edge_embed == AtomBondEmbedding(Inst("bond_embedding_list", layer_id), m.bond_attr)
        cur_edge_rbf == FloatRBF(Inst("bond_float_rbf_list", layer_id), m.bond_lengths)
        cur_edge_hidden == [r \in DOMAIN cur_edge_embed |-> cur_edge_embed[r] + cur_edge_rbf[r]]
        cur_dihedral_hidden ==
            FloatRBF(Inst("dihedral_angle_float_rbf_list", layer_id), m.dihedral_angles)
        cur_angle_rbf == FloatRBF(Inst("bond_angle_float_rbf_list", layer_id), m.bond_angles)
        cur_angle_hidden ==
            [r \in DOMAIN cur_angle_rbf |->
                cur_angle_rbf[r] + SumOver(cur_dihedral_hidden, DOMAIN cur_dihedral_hidden)]
        edge_hidden ==
            EGeoGNNBlock(Inst("bond_angle_block_list", layer_id), last_act(self, layer_id),
                         cur_edge_hidden, cur_angle_hidden,
                         b.BondAngleGraph_edges, bond_batch)
    IN [st EXCEPT
          !.node_hidden_list = append(@, node_hidden),
          !.edge_hidden_list = append(@, edge_hidden),
          !.calls = @ \o <<Call(Inst("bond_embedding_list", layer_id), m.bond_attr),
                          Call(Inst("bond_float_rbf_list", layer_id), m.bond_lengths),
                          Call(Inst("bond_angle_float_rbf_list", layer_id), m.bond_angles),
                          Call(Inst("dihedral_angle_float_rbf_list", layer_id),
                               m.dihedral_angles)>>,
          !.blocks = @ \o <<Inst("atom_bond_block_list", layer_id),
                            Inst("bond_angle_block_list", layer_id)>>]

\* one iteration of the loop of the variant without dihedrals (lines 144-163)
LayerWithoutDihedral(self, b, m, bond_batch, st, layer_id) ==
    LET node_hidden ==
            EGeoGNNBlock(Inst("atom_bond_block_list", layer_id), last_act(self, layer_id),
                         st.node_hidden_list[layer_id], st.edge_hidden_list[layer_id],
                         b.AtomBondGraph_edges, b.atom_batch)
        cur_edge_embed == AtomBondEmbedding(Inst("bond_embedding_list", layer_id), m.bond_attr)
        cur_edge_rbf == FloatRBF(Inst("bond_float_rbf_list", layer_id), m.bond_lengths)
        cur_edge_hidden == [r \in DOMAIN cur_edge_embed |-> cur_edge_embed[r] + cur_edge_rbf[r]]
        cur_angle_hidden == FloatRBF(Inst("bond_angle_float_rbf_list", layer_id), m.bond_angles)
        edge_hidden ==
            EGeoGNNBlock(Inst("bond_angle_block_list", layer_id), last_act(self, layer_id),
                         cur_edge_hidden, cur_angle_hidden,
                         b.BondAngleGraph_edges, bond_batch)
    IN [st EXCEPT
          !.node_hidden_list = append(@, node_hidden),
          !.edge_hidden_list = append(@, edge_hidden),
          !.calls = @ \o <<Call(Inst("bond_embedding_list", layer_id), m.bond_attr),
                          Call(Inst("bond_float_rbf_list", layer_id), m.bond_lengths),
                          Call(Inst("bond_angle_float_rbf_list", layer_id), m.bond_angles)>>,
          !.blocks = @ \o <<Inst("atom_bond_block_list", layer_id),
                            Inst("bond_angle_block_list", layer_id)>>]

RECURSIVE LoopWithoutDihedral(_, _, _, _, _, _)
LoopWithoutDihedral(self, b, m, bond_batch, st, layer_id) ==
    IF layer_id >= self.n_layers THEN st
    ELSE LoopWithoutDihedral(self, b, m, bond_batch,
            LayerWithoutDihedral(self, b, m, bond_batch, st, layer_id), layer_id + 1)

\* the loop body below with the bond-angle block fed edge_hidden_list[layer_id]
\* (the previous layer's output) in the place of the re-embedded cur_edge_hidden
LayerWithDihedralReusingEdgeHidden(self, b, m, bond_batch, angle_batch, st, layer_id) ==
    LET node_hidden ==
            EGeoGNNBlock(Inst("atom_bond_block_list", layer_id), last_act(self, layer_id),
                         st.node_hidden_list[layer_id], st.edge_hidden_list[layer_id],
                         b.AtomBondGraph_edges, b.atom_batch)
        edge_hidden ==
            EGeoGNNBlock(Inst("bond_angle_block_list", layer_id), last_act(self, layer_id),
                         st.edge_hidden_list[layer_id], st.angle_hidden_list[layer_id],
                         b.BondAngleGraph_edges, bond_batch)
        cur_angle_hidden == FloatRBF(Inst("bond_angle_float_rbf_list", layer_id), m.bond_angles)
        cur_dihedral_hidden ==
            FloatRBF(Inst("dihedral_angle_float_rbf_list", layer_id), m.dihedral_angles)
        angle_hidden ==
            EGeoGNNBlock(Inst("angle_dihedral_block_list", layer_id), last_act(self, layer_id),
                         cur_angle_hidden, cur_dihedral_hidden,
                         b.AngleDihedralGraph_edges, angle_batch)
    IN [st EXCEPT
          !.node_hidden_list = append(@, node_hidden),
          !.edge_hidden_list = append(@, edge_hidden),
          !.angle_hidden_list = append(@, angle_hidden),
          !.cur_dihedral_hidden = Some(cur_dihedral_hidden),
          !.calls = @ \o <<Call(Inst("bond_embedding_list", layer_id), m.bond_attr),
                          Call(Inst("bond_float_rbf_list", layer_id), m.bond_lengths),
                          Call(Inst("bond_angle_float_rbf_list", layer_id), m.bond_angles),
                          Call(Inst("dihedral_angle_float_rbf_list", layer_id),
                               m.dihedral_angles)>>,
          !.blocks = @ \o <<Inst("atom_bond_block_list", layer_id),
                            Inst("bond_angle_block_list", layer_id),
                            Inst("angle_dihedral_block_list", layer_id)>>]

\* the loop body below with the bond-angle block run first and the atom-bond
\* block fed its fresh output in the place of edge_hidden_list[layer_id]
LayerWithDihedralFreshEdgeHidden(self, b, m, bond_batch, angle_batch, st, layer_id) ==
    LET cur_edge_embed == AtomBondEmbedding(Inst("bond_embedding_list", layer_id), m.bond_attr)
        cur_edge_rbf == FloatRBF(Inst("bond_float_rbf_list", layer_id), m.bond_lengths)
        cur_edge_hidden == [r \in DOMAIN cur_edge_embed |-> cur_edge_embed[r] + cur_edge_rbf[r]]
        edge_hidden ==
            EGeoGNNBlock(Inst("bond_angle_block_list", layer_id), last_act(self, layer_id),
                         cur_edge_hidden, st.angle_hidden_list[layer_id],
                         b.BondAngleGraph_edges, bond_batch)
        node_hidden ==
            EGeoGNNBlock(Inst("atom_bond_block_list", layer_id), last_act(self, layer_id),
                         st.node_hidden_list[layer_id], edge_hidden,
                         b.AtomBondGraph_edges, b.atom_batch)
        cur_angle_hidden == FloatRBF(Inst("bond_angle_float_rbf_list", layer_id), m.bond_angles)
        cur_dihedral_hidden ==
            FloatRBF(Inst("dihedral_angle_float_rbf_list", layer_id), m.dihedral_angles)
        angle_hidden ==
            EGeoGNNBlock(Inst("angle_dihedral_block_list", layer_id), last_act(self, layer_id),
                         cur_angle_hidden, cur_dihedral_hidden,
                         b.AngleDihedralGraph_edges, angle_batch)
    IN [st EXCEPT
          !.node_hidden_list = append(@, node_hidden),
          !.edge_hidden_list = append(@, edge_hidden),
          !.angle_hidden_list = append(@, angle_hidden),
          !.cur_dihedral_hidden = Some(cur_dihedral_hidden),
          !.calls = @ \o <<Call(Inst("bond_embedding_list", layer_id), m.bond_attr),
                          Call(Inst("bond_float_rbf_list", layer_id), m.bond_lengths),
                          Call(Inst("bond_angle_float_rbf_list", layer_id), m.bond_angles),
                          Call(Inst("dihedral_angle_float_rbf_list", layer_id),
                               m.dihedral_angles)>>,
          !.blocks = @ \o <<Inst("atom_bond_block_list", layer_id),
                            Inst("bond_angle_block_list", layer_id),
                            Inst("angle_dihedral_block_list", layer_id)>>]

\* one iteration of the loop of the variant with dihedrals (lines 181-209)
LayerWithDihedral(self, b, m, bond_batch, angle_batch, st, layer_id) ==
    LET node_hidden ==
            EGeoGNNBlock(Inst("atom_bond_block_list", layer_id), last_act(self, layer_id),
                         st.node_hidden_list[layer_id], st.edge_hidden_list[layer_id],
                         b.AtomBondGraph_edges, b.atom_batch)
        cur_edge_embed == AtomBondEmbedding(Inst("bond_embedding_list", layer_id), m.bond_attr)
        cur_edge_rbf == FloatRBF(Inst("bond_float_rbf_list", layer_id), m.bond_lengths)
        cur_edge_hidden == [r \in DOMAIN cur_edge_embed |-> cur_edge_embed[r] + cur_edge_rbf[r]]
        edge_hidden ==
            EGeoGNNBlock(Inst("bond_angle_block_list", layer_id), last_act(self, layer_id),
                         cur_edge_hidden, st.angle_hidden_list[layer_id],
                         b.BondAngleGraph_edges, bond_batch)
        cur_angle_hidden == FloatRBF(Inst("bond_angle_float_rbf_list", layer_id), m.bond_angles)
        cur_dihedral_hidden ==
            FloatRBF(Inst("dihedral_angle_float_rbf_list", layer_id), m.dihedral_angles)
        angle_hidden ==
            EGeoGNNBlock(Inst("angle_dihedral_block_list", layer_id), last_act(self, layer_id),
                         cur_angle_hidden, cur_dihedral_hidden,
                         b.AngleDihedralGraph_edges, angle_batch)
    IN [st EXCEPT
          !.node_hidden_list = append(@, node_hidden),
          !.edge_hidden_list = append(@, edge_hidden),
          !.angle_hidden_list = append(@, angle_hidden),
          !.cur_dihedral_hidden = Some(cur_dihedral_hidden),
          !.calls = @ \o <<Call(Inst("bond_embedding_list", layer_id), m.bond_attr),
                          Call(Inst("bond_float_rbf_list", layer_id), m.bond_lengths),
                          Call(Inst("bond_angle_float_rbf_list", layer_id), m.bond_angles),
                          Call(Inst("dihedral_angle_float_rbf_list", layer_id),
                               m.dihedral_angles)>>,
          !.blocks = @ \o <<Inst("atom_bond_block_list", layer_id),
                            Inst("bond_angle_block_list", layer_id),
                            Inst("angle_dihedral_block_list", layer_id)>>]

RECURSIVE LoopWithDihedral(_, _, _, _, _, _, _)
LoopWithDihedral(self, b, m, bond_batch, angle_batch, st, layer_id) ==
    IF layer_id >= self.n_layers THEN st
    ELSE LoopWithDihedral(self, b, m, bond_batch, angle_batch,
            LayerWithDihedral(self, b, m, bond_batch, angle_batch, st, layer_id),
            layer_id + 1)

\* pooling by the sum in the place of the mean
PoolSum(node_repr, atom_batch, num_graphs) == global_add_pool(node_repr, atom_batch, num_graphs)

\* the pooling of node_repr into graph_repr (lines 167 and 215)
Pool(node_repr, atom_batch, num_graphs) == global_mean_pool(node_repr, atom_batch, num_graphs)

\* a local variable no statement has assigned yet
Unbound == None

\* the initial embeddings (lines 133-135) and the layer calls that make them
InitialHidden(m) ==
    LET bond_embed == AtomBondEmbedding(Inst("init_bond_embedding", 0), m.bond_attr)
        bond_rbf == FloatRBF(Inst("init_bond_float_rbf", 0), m.bond_lengths)
    IN [node_hidden |-> AtomBondEmbedding(Inst("init_atom_embedding", 0), m.x),
        bond_hidden |-> [r \in DOMAIN bond_embed |-> bond_embed[r] + bond_rbf[r]],
        calls |-> <<Call(Inst("init_atom_embedding", 0), m.x),
                    Call(Inst("init_bond_embedding", 0), m.bond_attr),
                    Call(Inst("init_bond_float_rbf", 0), m.bond_lengths)>>]

\* the return of the variant without dihedrals (lines 165-169)
ReturnWithoutDihedral(b, heap, bond_batch, st) ==
    [status |-> "ok", heap |-> heap, calls |-> st.calls,
     lists |-> st, bond_batch |-> bond_batch,
     node_repr |-> last(st.node_hidden_list), edge_repr |-> last(st.edge_hidden_list),
     angle_repr |-> None, dihedral_repr |-> None,
     graph_repr |-> Pool(last(st.node_hidden_list), b.atom_batch, b.num_graphs)]

\* the variant without dihedrals (lines 138-169)
ForwardWithoutDihedral(self, b, heap, m, init, bond_batch) ==
    ReturnWithoutDihedral(b, heap, bond_batch,
        LoopWithoutDihedral(self, b, m, bond_batch,
            [node_hidden_list |-> A0(<<init.node_hidden>>),
             edge_hidden_list |-> A0(<<init.bond_hidden>>),
             calls |-> init.calls, blocks |-> <<>>], 0))

\* the return of the variant with dihedrals (lines 211-217); reading
\* cur_dihedral_hidden before the loop has assigned it raises
ReturnWithDihedral(b, heap, bond_batch, angle_batch, st) ==
    IF st.cur_dihedral_hidden = Unbound
    THEN [status |-> "UnboundLocalError", heap |-> heap, calls |-> st.calls]
    ELSE [status |-> "ok", heap |-> heap, calls |-> st.calls,
          lists |-> st, bond_batch |-> bond_batch, angle_batch |-> angle_batch,
          node_repr |-> last(st.node_hidden_list), edge_repr |-> last(st.edge_hidden_list),
          angle_repr |-> Some(last(st.angle_hidden_list)),
          dihedral_repr |-> Some(The(st.cur_dihedral_hidden)),
          graph_repr |-> Pool(last(st.node_hidden_list), b.atom_batch, b.num_graphs)]

\* the variant with dihedrals (lines 171-217)
ForwardWithDihedral(self, b, heap, m, init, bond_batch) ==
    ReturnWithDihedral(b, heap, bond_batch, repeat_interleave(arange(b.num_graphs), b.num_angles),
        LoopWithDihedral(self, b, m, bond_batch,
            repeat_interleave(arange(b.num_graphs), b.num_angles),
            [node_hidden_list |-> A0(<<init.node_hidden>>),
             edge_hidden_list |-> A0(<<init.bond_hidden>>),
             angle_hidden_list |->
                A0(<<FloatRBF(Inst("init_bond_angle_float_rbf", 0), m.bond_angles)>>),
             cur_dihedral_hidden |-> Unbound, blocks |-> <<>>,
             calls |-> init.calls \o
                <<Call(Inst("init_bond_angle_float_rbf", 0), m.bond_angles)>>], 0))

\* forward from line 133 on, given what mask_attr returned
ForwardMasked(self, b, ma) ==
    IF self.without_dihedral
    THEN ForwardWithoutDihedral(self, b, ma.heap, ma.out, InitialHidden(ma.out),
                                repeat_interleave(arange(b.num_graphs), b.num_bonds))
    ELSE ForwardWithDihedral(self, b, ma.heap, ma.out, InitialHidden(ma.out),
                             repeat_interleave(arange(b.num_graphs), b.num_bonds))

\* EGeoGNNModel.forward(b) with the caller's tensors in heap: what it returns
\* or raises, the layer calls it made and the heap it leaves
encoder_forward(self, b, heap) ==
    ForwardMasked(self, b,
        mask_attr(self, heap, b.masked_atom_indices, b.masked_bond_indices,
                  b.masked_angle_indices, b.masked_dihedral_indices))

\* ------------------------------------- models/conv.py (absent), torch.nn

Abs(v) == IF v < 0 THEN -v ELSE v

\* MLP: one prediction per input row; an input row is the concatenation of
\* atom representations, and each position has its own weights
MLP(head, rows) ==
    [d \in DOMAIN rows |->
        Weight(Inst(head, 0)) +
        SumOver([k \in DOMAIN rows[d] |-> (k + 1) * rows[d][k]], DOMAIN rows[d])]

\* nn.SmoothL1Loss (mean reduction), in units of one half: a difference d
\* costs d*d for |d| < 1 and 2|d| - 1 otherwise
SmoothL1Loss(pred, target) ==
    SumOver([d \in DOMAIN pred |->
                IF pred[d] = target[d] THEN 0 ELSE 2 * Abs(pred[d] - target[d]) - 1],
            DOMAIN pred) \div Cardinality(DOMAIN pred)

\* ------------------------------------------------------------------ EGEM

Tasks == {"Blr", "Bar", "Dar", "Adc", "CM5", "ESPC", "HIRSHFELD", "NPA", "WIBERG"}

\* EGEM.__init__: the heads and loss functions the module owns
Heads(pretrain_tasks) ==
    {h \in {"Blr_mlp", "Bar_mlp", "Dar_mlp", "Adc_mlp", "cm5_mlp", "espc_mlp",
            "hirshfeld_mlp", "npa_mlp", "wiberg_mlp"} :
        \/ h = "Blr_mlp" /\ "Blr" \in pretrain_tasks
        \/ h = "Bar_mlp" /\ "Bar" \in pretrain_tasks
        \/ h = "Dar_mlp" /\ "Dar" \in pretrain_tasks
        \/ h = "Adc_mlp" /\ "Adc" \in pretrain_tasks
        \/ h = "cm5_mlp" /\ "CM5" \in pretrain_tasks
        \/ h = "espc_mlp" /\ "ESPC" \in pretrain_tasks
        \/ h = "hirshfeld_mlp" /\ "HIRSHFELD" \in pretrain_tasks
        \/ h = "npa_mlp" /\ "NPA" \in pretrain_tasks
        \/ h = "wiberg_mlp" /\ "WIBERG" \in pretrain_tasks}

\* the tail of a helper: pred = head(inputs), then the loss against
\* target[indices]; subscripting a None target raises TypeError
HeadLoss(head, atoms, atom_attr, target, indices) ==
    LET rows == [d \in indices |-> [k \in DOMAIN atoms[d] |-> atom_attr[atoms[d][k]]]]
        pred == MLP(head, rows)
    IN IF target = None
       THEN [status |-> "TypeError"]
       ELSE LET read == [d \in indices |-> The(target)[d]]
            IN [status |-> "ok", loss |-> SmoothL1Loss(pred, read),
                atoms |-> atoms, rows |-> rows, target |-> read]

\* a helper whose index tensor is None: index_select raises TypeError
NoIndices == [status |-> "TypeError"]

_get_Blr_loss(self, atom_attr, bond_lengths, AtomBondGraph_edges, masked_bond_indices) ==
    IF masked_bond_indices = None THEN NoIndices
    ELSE LET sel == The(masked_bond_indices)
             masked_atom_i == [d \in sel |-> AtomBondGraph_edges[d][1]]
             masked_atom_j == [d \in sel |-> AtomBondGraph_edges[d][2]]
         IN HeadLoss("Blr_mlp", [d \in sel |-> A0(<<masked_atom_i[d], masked_atom_j[d]>>)],
                     atom_attr, bond_lengths, sel)

_get_Bar_loss(self, atom_attr, bond_angles, AtomBondGraph_edges, BondAngleGraph_edges, masked_angle_indices) ==
    IF masked_angle_indices = None THEN NoIndices
    ELSE LET sel == The(masked_angle_indices)
             masked_bond_i == [d \in sel |-> BondAngleGraph_edges[d][1]]
             masked_bond_j == [d \in sel |-> BondAngleGraph_edges[d][2]]
             masked_atom_i == [d \in sel |-> AtomBondGraph_edges[masked_bond_i[d]][1]]
             masked_atom_j == [d \in sel |-> AtomBondGraph_edges[masked_bond_i[d]][2]]
             masked_atom_k == [d \in sel |-> AtomBondGraph_edges[masked_bond_j[d]][2]]
         IN HeadLoss("Bar_mlp",
                     [d \in sel |-> A0(<<masked_atom_i[d], masked_atom_j[d], masked_atom_k[d]>>)],
                     atom_attr, bond_angles, sel)

\* "masked_bond_k, _ =" in the place of "_, masked_bond_k =": the first bond
\* of the second angle
DarBondsFirstOfSecond(BondAngleGraph_edges, masked_angle_i, masked_angle_j) ==
    [i |-> BondAngleGraph_edges[masked_angle_i][1],
     k |-> BondAngleGraph_edges[masked_angle_j][1]]

\* the two bonds _get_Dar_loss resolves a dihedral's two angles to: the first
\* bond of the first angle and the second bond of the second angle
DarBonds(BondAngleGraph_edges, masked_angle_i, masked_angle_j) ==
    [i |-> BondAngleGraph_edges[masked_angle_i][1],
     k |-> BondAngleGraph_edges[masked_angle_j][2]]

_get_Dar_loss(self, atom_attr, dihedral_angles, AtomBondGraph_edges, BondAngleGraph_edges, AngleDihedralGraph_edges, masked_dihedral_indices) ==
    IF masked_dihedral_indices = None THEN NoIndices
    ELSE LET sel == The(masked_dihedral_indices)
             masked_angle_i == [d \in sel |-> AngleDihedralGraph_edges[d][1]]
             masked_angle_j == [d \in sel |-> AngleDihedralGraph_edges[d][2]]
             bonds == [d \in sel |->
                         DarBonds(BondAngleGraph_edges, masked_angle_i[d], masked_angle_j[d])]
             masked_atom_i == [d \in sel |-> AtomBondGraph_edges[bonds[d].i][1]]
             masked_atom_j == [d \in sel |-> AtomBondGraph_edges[bonds[d].i][2]]
             masked_atom_k == [d \in sel |-> AtomBondGraph_edges[bonds[d].k][1]]
             masked_atom_l == [d \in sel |-> AtomBondGraph_edges[bonds[d].k][2]]
         IN HeadLoss("Dar_mlp",
                     [d \in sel |-> A0(<<masked_atom_i[d], masked_atom_j[d],
                                         masked_atom_k[d], masked_atom_l[d]>>)],
                     atom_attr, dihedral_angles, sel)

\* _get_cm5_loss, _get_espc_loss, _get_hirshfeld_loss, _get_npa_loss
_get_charge_loss(self, head, atom_attr, charges, masked_atom_indices) ==
    IF masked_atom_indices = None THEN NoIndices
    ELSE LET sel == The(masked_atom_indices)
         IN HeadLoss(head, [d \in sel |-> A0(<<d>>)], atom_attr, charges, sel)

_get_wiberg_loss(self, atom_attr, bond_orders, AtomBondGraph_edges, masked_bond_indices) ==
    IF masked_bond_indices = None THEN NoIndices
    ELSE LET sel == The(masked_bond_indices)
             masked_atom_i == [d \in sel |-> AtomBondGraph_edges[d][1]]
             masked_atom_j == [d \in sel |-> AtomBondGraph_edges[d][2]]
         IN HeadLoss("wiberg_mlp", [d \in sel |-> A0(<<masked_atom_i[d], masked_atom_j[d]>>)],
                     atom_attr, bond_orders, sel)

\* the "if <task> in self.pretrain_tasks" blocks of compute_loss, in order
TaskOrder == <<"Blr", "Bar", "Dar", "CM5", "ESPC", "HIRSHFELD", "NPA", "WIBERG">>

\* the key each block stores its loss under
LossKey ==
    [Blr |-> "bond_length_loss", Bar |-> "bond_angle_loss", Dar |-> "dihedral_angle_loss",
     CM5 |-> "cm5_charge_loss", ESPC |-> "espc_charge_loss",
     HIRSHFELD |-> "hirshfeld_charge_loss", NPA |-> "npa_charge_loss",
     WIBERG |-> "wiberg_order_loss"]

\* the helper each block calls, with the arguments it passes
TaskLoss(self, a, task) ==
    CASE task = "Blr" ->
            _get_Blr_loss(self, a.atom_attr, a.bond_lengths, a.AtomBondGraph_edges,
                          a.masked_bond_indices)
      [] task = "Bar" ->
            _get_Bar_loss(self, a.atom_attr, a.bond_angles, a.AtomBondGraph_edges,
                          a.BondAngleGraph_edges, a.masked_angle_indices)
      [] task = "Dar" ->
            _get_Dar_loss(self, a.atom_attr, a.dihedral_angles, a.AtomBondGraph_edges,
                          a.BondAngleGraph_edges, a.AngleDihedralGraph_edges,
                          a.masked_dihedral_indices)
      [] task = "CM5" ->
            _get_charge_loss(self, "cm5_mlp", a.atom_attr, a.cm5_charges, a.masked_atom_indices)
      [] task = "ESPC" ->
            _get_charge_loss(self, "espc_mlp", a.atom_attr, a.espc_charges,
                             a.masked_atom_indices)
      [] task = "HIRSHFELD" ->
            _get_charge_loss(self, "hirshfeld_mlp", a.atom_attr, a.hirshfeld_charges,
                             a.masked_atom_indices)
      [] task = "NPA" ->
            _get_charge_loss(self, "npa_mlp", a.atom_attr, a.npa_charges, a.masked_atom_indices)
      [] task = "WIBERG" ->
            _get_wiberg_loss(self, a.atom_attr, a.bond_orders, a.AtomBondGraph_edges,
                             a.masked_bond_indices)

\* the blocks from the i-th on; acc holds loss (is_tensor: whether a tensor
\* was added to the int 0), loss_dict, and every helper result so far
RECURSIVE LossBlocks(_, _, _, _)
LossBlocks(self, a, i, acc) ==
    IF i > Len(TaskOrder) THEN acc
    ELSE LET task == TaskOrder[i]
         IN IF task \notin self.pretrain_tasks
            THEN LossBlocks(self, a, i + 1, acc)
            ELSE LET r == TaskLoss(self, a, task)
                 IN IF r.status # "ok"
                    THEN [status |-> r.status, raised_in |-> task]
                    ELSE LossBlocks(self, a, i + 1,
                            [acc EXCEPT
                               !.loss = @ + r.loss,
                               !.is_tensor = TRUE,
                               !.loss_dict = (LossKey[task] :> r.loss) @@ @,
                               !.terms = Append(@, task),
                               !.helper = (task :> r) @@ @])

\* EGEM.compute_loss(a): (loss, loss_dict), or the exception it raises;
\* the int 0 has no detach()
compute_loss(self, a) ==
    LET acc == LossBlocks(self, a, 1,
                  [status |-> "ok", loss |-> 0, is_tensor |-> FALSE, loss_dict |-> <<>>,
                   terms |-> <<>>, helper |-> <<>>])
    IN IF acc.status # "ok" THEN acc
       ELSE IF ~acc.is_tensor THEN [status |-> "AttributeError", raised_in |-> "loss.detach"]
       ELSE [acc EXCEPT !.loss_dict = ("loss" :> acc.loss) @@ @]

\* the second statement of EGEM.forward (lines 562-578): compute_loss on the
\* encoder's node_repr and the caller's own tensors
LossOfEncoded(self, b, enc) ==
    IF enc.status # "ok" THEN enc
    ELSE [heap |-> enc.heap, calls |-> enc.calls] @@
         compute_loss(self,
            [atom_attr |-> enc.node_repr,
             bond_lengths |-> Some(enc.heap["bond_lengths"]),
             bond_angles |-> Some(enc.heap["bond_angles"]),
             dihedral_angles |-> Some(enc.heap["dihedral_angles"]),
             cm5_charges |-> b.cm5_charges, espc_charges |-> b.espc_charges,
             hirshfeld_charges |-> b.hirshfeld_charges, npa_charges |-> b.npa_charges,
             bond_orders |-> b.bond_orders,
             AtomBondGraph_edges |-> b.AtomBondGraph_edges,
             BondAngleGraph_edges |-> b.BondAngleGraph_edges,
             AngleDihedralGraph_edges |-> b.AngleDihedralGraph_edges,
             masked_atom_indices |-> b.masked_atom_indices,
             masked_bond_indices |-> b.masked_bond_indices,
             masked_angle_indices |-> b.masked_angle_indices,
             masked_dihedral_indices |-> b.masked_dihedral_indices])

\* EGEM.forward(b) with the caller's tensors in heap: the encoder on the
\* batch, then compute_loss
EGEM_forward(self, b, heap) == LossOfEncoded(self, b, encoder_forward(self, b, heap))

\* --------------------------------------------------------------- the batches

Masks(n) == {None} \cup {Some(S) : S \in SUBSET (0..(n - 1))}

NoTargets ==
    [cm5_charges |-> None, espc_charges |-> None, hirshfeld_charges |-> None,
     npa_charges |-> None, bond_orders |-> None]

NoGraph ==
    [AtomBondGraph_edges |-> <<>>, BondAngleGraph_edges |-> <<>>,
     AngleDihedralGraph_edges |-> <<>>, atom_batch |-> <<>>,
     num_bonds |-> <<>>, num_angles |-> <<>>, num_graphs |-> 0]

\* every categorical row over the real (non-mask) tokens of each field
CatRows(names) ==
    {r \in [DOMAIN names -> 0..2] :
        \A i \in DOMAIN names : r[i] <= get_feature_dims(names)[i] - 2}

\* the batched graphs the encoder is run on: edge tables (one <<src, dst>>
\* per column), the per-atom graph index and the per-graph counts
\*   Chain4: one molecule, the chain 0-1-2-3 with 3 bonds, 2 angles, 1 dihedral
\*   TwoMol: two molecules, chains of 3 and of 5 atoms
\*   Pair:   two molecules, a lone atom pair and a chain of 3 atoms
Chain4 ==
    [AtomBondGraph_edges |-> A0(<< <<0, 1>>, <<1, 2>>, <<2, 3>> >>),
     BondAngleGraph_edges |-> A0(<< <<0, 1>>, <<1, 2>> >>),
     AngleDihedralGraph_edges |-> A0(<< <<0, 1>> >>),
     atom_batch |-> A0(<<0, 0, 0, 0>>),
     num_bonds |-> A0(<<3>>), num_angles |-> A0(<<2>>), num_graphs |-> 1,
     n_dihedrals |-> 1]

TwoMol ==
    [AtomBondGraph_edges |->
        A0(<< <<0, 1>>, <<1, 2>>, <<3, 4>>, <<4, 5>>, <<5, 6>>, <<6, 7>> >>),
     BondAngleGraph_edges |-> A0(<< <<0, 1>>, <<2, 3>>, <<3, 4>>, <<4, 5>> >>),
     AngleDihedralGraph_edges |-> A0(<< <<1, 2>>, <<2, 3>> >>),
     atom_batch |-> A0(<<0, 0, 0, 1, 1, 1, 1, 1>>),
     num_bonds |-> A0(<<2, 4>>), num_angles |-> A0(<<1, 3>>), num_graphs |-> 2,
     n_dihedrals |-> 2]

Pair ==
    [AtomBondGraph_edges |-> A0(<< <<0, 1>>, <<1, 0>>, <<2, 3>>, <<3, 4>> >>),
     BondAngleGraph_edges |-> A0(<< <<2, 3>> >>),
     AngleDihedralGraph_edges |-> A0(<<>>),
     atom_batch |-> A0(<<0, 0, 1, 1, 1>>),
     num_bonds |-> A0(<<2, 2>>), num_angles |-> A0(<<0, 1>>), num_graphs |-> 2,
     n_dihedrals |-> 0]

Graphs == {Chain4, TwoMol, Pair}

\* the fields of a graph that a call receives
GraphArgs(g) == [f \in DOMAIN NoGraph |-> g[f]]

\* categorical rows, all token 0 but for the rows in hot, which hold token 1
\* in their first field
HotRows(n, names, hot) ==
    [r \in 0..(n - 1) |-> [i \in DOMAIN names |-> IF i = 0 /\ r \in hot THEN 1 ELSE 0]]

\* scalars cycling through 0..MaxVal from a starting value
Scalars(n, start) == [r \in 0..(n - 1) |-> (r + start) % (MaxVal + 1)]

\* per-graph counts with the last graph's count changed by d
Shifted(counts, d) == [counts EXCEPT ![Rows(counts) - 1] = @ + d]

Sum(a) == SumOver(a, DOMAIN a)

\* sum(num_bonds) and sum(num_angles) agree with the rows of the bond and
\* angle tensors
ConsistentCounts(b) ==
    /\ Sum(b.num_bonds) = Rows(b.bond_attr)
    /\ Sum(b.num_angles) = Rows(b.bond_angles)

\* ------------------------------------------------------ calls of mask_attr

MaskModel ==
    [without_dihedral |-> FALSE, n_layers |-> 1,
     atom_names |-> A0(<<"atomic_num", "chiral_tag">>),
     bond_names |-> A0(<<"bond_dir", "is_in_ring">>),
     pretrain_tasks |-> {}]

\* rows of the tensors handed to mask_attr
MaskShapes == {[atoms |-> 2, bonds |-> 2, angles |-> 1, dihedrals |-> 1]}

MaskBatches(MaskShape) ==
    {  [x |-> x, bond_attr |-> ba, bond_lengths |-> bl, bond_angles |-> bg,
        dihedral_angles |-> da,
        masked_atom_indices |-> ma, masked_bond_indices |-> mb,
        masked_angle_indices |-> mg, masked_dihedral_indices |-> md]
       @@ NoGraph @@ NoTargets :
       x  \in Arr(MaskShape.atoms, CatRows(MaskModel.atom_names)),
       ba \in Arr(MaskShape.bonds, CatRows(MaskModel.bond_names)),
       bl \in Arr(MaskShape.bonds, 0..MaxVal),
       bg \in Arr(MaskShape.angles, 0..MaxVal),
       da \in Arr(MaskShape.dihedrals, 0..MaxVal),
       ma \in Masks(MaskShape.atoms), mb \in Masks(MaskShape.bonds),
       mg \in Masks(MaskShape.angles), md \in Masks(MaskShape.dihedrals) }

InitMask ==
    /\ model = MaskModel
    /\ \E shape \in MaskShapes : batch \in MaskBatches(shape)
    /\ ret = [op |-> "none"]

\* model.mask_attr(x, bond_attr, bond_lengths, bond_angles, dihedral_angles, masks...)
MaskAttr ==
    /\ ret.op = "none"
    /\ LET r == mask_attr(model, CallerHeap(batch), batch.masked_atom_indices,
                          batch.masked_bond_indices, batch.masked_angle_indices,
                          batch.masked_dihedral_indices)
       IN /\ batch' = AfterCall(batch, r.heap)
          /\ ret' = [op |-> "mask_attr", status |-> "ok", out |-> r.out, args |-> CallerHeap(batch)]
    /\ UNCHANGED model

NextMask == MaskAttr

SpecMask == InitMask /\ [][NextMask]_vars

\* is row r of a tensor masked by the Optional index set m
IsMasked(m, r) == m # None /\ r \in The(m)

\* C1: mask_attr never mutates its inputs: after the call each of the five
\* caller arrays equals, element for element, its value before the call.
C1_InputsNotMutated ==
    ret.op = "mask_attr" =>
        \A a \in ArgNames :
            /\ DOMAIN batch[a] = DOMAIN ret.args[a]
            /\ \A r \in DOMAIN batch[a] : batch[a][r] = ret.args[a][r]

\* a call that overwrote entries in every returned copy
C1_Witness ==
    /\ ret.op = "mask_attr"
    /\ \A a \in ArgNames : ret.out[a] # ret.args[a] /\ batch[a] = ret.args[a]

\* C2: the returned copies hold vocab[i] - 1 in every field of every masked
\* atom / bond row, 0 at every masked length, angle and dihedral index, and the
\* input entry everywhere else (and everywhere when the index set is None).
C2_MaskedValues ==
    ret.op = "mask_attr" =>
        LET in == ret.args
            out == ret.out
        IN /\ \A a \in ArgNames : DOMAIN out[a] = DOMAIN in[a]
           /\ \A r \in DOMAIN in.x : \A i \in DOMAIN model.atom_names :
                 out.x[r][i] = IF IsMasked(batch.masked_atom_indices, r)
                               THEN FeatureVocab[model.atom_names[i]] - 1
                               ELSE in.x[r][i]
           /\ \A r \in DOMAIN in.bond_attr : \A i \in DOMAIN model.bond_names :
                 out.bond_attr[r][i] = IF IsMasked(batch.masked_bond_indices, r)
                                       THEN FeatureVocab[model.bond_names[i]] - 1
                                       ELSE in.bond_attr[r][i]
           /\ \A r \in DOMAIN in.bond_lengths :
                 out.bond_lengths[r] =
                    IF IsMasked(batch.masked_bond_indices, r) THEN 0 ELSE in.bond_lengths[r]
           /\ \A r \in DOMAIN in.bond_angles :
                 out.bond_angles[r] =
                    IF IsMasked(batch.masked_angle_indices, r) THEN 0 ELSE in.bond_angles[r]
           /\ \A r \in DOMAIN in.dihedral_angles :
                 out.dihedral_angles[r] =
                    IF IsMasked(batch.masked_dihedral_indices, r) THEN 0
                    ELSE in.dihedral_angles[r]

\* a call with one atom masked and one not, bonds masked, angles not (None)
C2_Witness ==
    /\ ret.op = "mask_attr"
    /\ batch.masked_atom_indices = Some({1})
    /\ batch.masked_bond_indices = Some({0, 1})
    /\ batch.masked_angle_indices = None
    /\ batch.masked_dihedral_indices = Some({0})
    /\ ret.out.x[1] # ret.args.x[1] /\ ret.out.x[0] = ret.args.x[0]
    /\ ret.args.bond_lengths[0] = 1 /\ ret.out.bond_lengths[0] = 0
    /\ ret.args.bond_angles[0] = 1 /\ ret.out.bond_angles[0] = 1
    /\ ret.args.dihedral_angles[0] = 1 /\ ret.out.dihedral_angles[0] = 0

\* --------------------------------------------- calls of EGeoGNNModel.forward

MaxLayers == 2

EncNames ==
    [atom_names |-> A0(<<"atomic_num", "chiral_tag">>), bond_names |-> A0(<<"bond_dir">>)]

EncModels ==
    {[without_dihedral |-> wd, n_layers |-> n, atom_names |-> EncNames.atom_names,
      bond_names |-> EncNames.bond_names, pretrain_tasks |-> {}] :
        wd \in BOOLEAN, n \in 0..MaxLayers}

EncBatchesOf(g) ==
    {  [x |-> HotRows(Rows(g.atom_batch), EncNames.atom_names, hot),
        bond_attr |-> HotRows(Rows(g.AtomBondGraph_edges), EncNames.bond_names, {}),
        bond_lengths |-> Scalars(Rows(g.AtomBondGraph_edges), start),
        bond_angles |-> Scalars(Rows(g.BondAngleGraph_edges), start + 1),
        dihedral_angles |-> Scalars(g.n_dihedrals, start),
        masked_atom_indices |-> ma, masked_bond_indices |-> None,
        masked_angle_indices |-> None, masked_dihedral_indices |-> None]
       @@ [GraphArgs(g) EXCEPT !.num_bonds = Shifted(@, db), !.num_angles = Shifted(@, dg)]
       @@ NoTargets :
       hot \in {{}} \cup {{a} : a \in DOMAIN g.atom_batch},
       start \in 0..MaxVal,
       ma \in {None, Some({0})},
       db \in {-1, 0, 1}, dg \in {-1, 0, 1} }


InitEnc ==
    /\ model \in EncModels
    /\ \E g \in Graphs : batch \in EncBatchesOf(g)
    /\ ret = [op |-> "none"]

\* model(AtomBondGraph_edges, ..., masked_dihedral_indices)
Forward ==
    /\ ret.op = "none"
    /\ LET r == encoder_forward(model, batch, CallerHeap(batch))
       IN /\ batch' = AfterCall(batch, r.heap)
          /\ ret' = [op |-> "forward", args |-> CallerHeap(batch)]
                        @@ [f \in DOMAIN r \ {"heap"} |-> r[f]]
    /\ UNCHANGED model

NextEnc == Forward

SpecEnc == InitEnc /\ [][NextEnc]_vars

\* C3 (as claimed): without dihedrals forward returns angle_repr = None and
\* dihedral_repr = None; with dihedrals, for every n_layers and every valid
\* batch, it returns an angle_repr with one row per bond angle and a
\* dihedral_repr with one row per dihedral angle.
C3_AngleDihedralRepr ==
    (ret.op = "forward" /\ ConsistentCounts(batch)) =>
        /\ ret.status = "ok"
        /\ IF model.without_dihedral
           THEN ret.angle_repr = None /\ ret.dihedral_repr = None
           ELSE /\ ret.angle_repr # None
                /\ DOMAIN The(ret.angle_repr) = DOMAIN batch.bond_angles
                /\ ret.dihedral_repr # None
                /\ DOMAIN The(ret.dihedral_repr) = DOMAIN batch.dihedral_angles

\* atom_batch puts at least one atom in each of the num_graphs graphs
Partitions(b) ==
    /\ \A a \in DOMAIN b.atom_batch : b.atom_batch[a] \in 0..(b.num_graphs - 1)
    /\ \A g \in 0..(b.num_graphs - 1) : \E a \in DOMAIN b.atom_batch : b.atom_batch[a] = g

\* C4: in both variants graph_repr has num_graphs rows and row g is the mean
\* of the node_repr rows of the atoms a with atom_batch[a] = g (the mean m of
\* k integers of sum s, rounded down: k * m <= s < k * (m + 1)).
C4_GraphReprIsMean ==
    (ret.op = "forward" /\ ret.status = "ok" /\ Partitions(batch)) =>
        /\ DOMAIN ret.graph_repr = 0..(batch.num_graphs - 1)
        /\ DOMAIN ret.node_repr = DOMAIN batch.atom_batch
        /\ \A g \in DOMAIN ret.graph_repr :
              LET members == {a \in DOMAIN batch.atom_batch : batch.atom_batch[a] = g}
                  total == SumOver(ret.node_repr, members)
                  k == Cardinality(members)
              IN /\ k * ret.graph_repr[g] <= total
                 /\ total < k * (ret.graph_repr[g] + 1)

\* two molecules of 3 and 5 atoms pooled into 2 different rows
C4_Witness ==
    /\ ret.op = "forward" /\ ret.status = "ok"
    /\ batch.num_graphs = 2
    /\ Cardinality({a \in DOMAIN batch.atom_batch : batch.atom_batch[a] = 0}) = 3
    /\ Cardinality({a \in DOMAIN batch.atom_batch : batch.atom_batch[a] = 1}) = 5
    /\ Rows(ret.graph_repr) = 2
    /\ ret.graph_repr[0] # ret.graph_repr[1]
    /\ \E a, c \in DOMAIN ret.node_repr :
          batch.atom_batch[a] = 1 /\ batch.atom_batch[c] = 1
          /\ ret.node_repr[a] # ret.node_repr[c]

\* C5 (as claimed): a batch whose sum(num_bonds) or sum(num_angles) differs
\* from the rows of the bond or angle tensor makes forward fail with a
\* BatchConsistencyError; no representation is returned.
C5_InconsistentCountsRaise ==
    (ret.op = "forward" /\ ~ConsistentCounts(batch)) =>
        ret.status = "BatchConsistencyError"

\* ------------------------------------------------ calls of EGEM.compute_loss
\* In these calls batch holds compute_loss's own arguments; each of the eight
\* target arrays is Optional.

\* at most this many of the target arrays are None in one call
MaxMissing == 1

Targets ==
    {"bond_lengths", "bond_angles", "dihedral_angles", "cm5_charges", "espc_charges",
     "hirshfeld_charges", "npa_charges", "bond_orders"}

\* the target array each task regresses on
TargetOf ==
    [Blr |-> "bond_lengths", Bar |-> "bond_angles", Dar |-> "dihedral_angles",
     CM5 |-> "cm5_charges", ESPC |-> "espc_charges", HIRSHFELD |-> "hirshfeld_charges",
     NPA |-> "npa_charges", WIBERG |-> "bond_orders"]

LossModels ==
    {[without_dihedral |-> FALSE, n_layers |-> 1, atom_names |-> EncNames.atom_names,
      bond_names |-> EncNames.bond_names, pretrain_tasks |-> T] : T \in SUBSET Tasks}

\* the per-row length of each target array on the graph g
TargetRows(g) ==
    [bond_lengths |-> Rows(g.AtomBondGraph_edges), bond_angles |-> Rows(g.BondAngleGraph_edges),
     dihedral_angles |-> g.n_dihedrals, cm5_charges |-> Rows(g.atom_batch),
     espc_charges |-> Rows(g.atom_batch), hirshfeld_charges |-> Rows(g.atom_batch),
     npa_charges |-> Rows(g.atom_batch), bond_orders |-> Rows(g.AtomBondGraph_edges)]

LossArgs(g) ==
    {  [t \in Targets |->
           IF t \in missing THEN None ELSE Some(Scalars(TargetRows(g)[t], start))]
       @@ [atom_attr |-> [a \in DOMAIN g.atom_batch |-> 2 * a + start],
           masked_atom_indices |-> Some({0, 2}), masked_bond_indices |-> Some({1}),
           masked_angle_indices |-> Some({0}), masked_dihedral_indices |-> Some({0})]
       @@ GraphArgs(g) :
       missing \in {m \in SUBSET Targets : Cardinality(m) <= MaxMissing},
       start \in 0..MaxVal }

InitLoss ==
    /\ model \in LossModels
    /\ batch \in LossArgs(Chain4)
    /\ ret = [op |-> "none"]

\* model.compute_loss(bond_lengths, ..., masked_dihedral_indices)
ComputeLoss ==
    /\ ret.op = "none"
    /\ ret' = [op |-> "compute_loss"] @@ compute_loss(model, batch)
    /\ UNCHANGED <<model, batch>>

NextLoss == ComputeLoss

SpecLoss == InitLoss /\ [][NextLoss]_vars

\* every target array is present
AllTargetsPresent(b) == \A t \in Targets : b[t] # None

\* C7 (as claimed): compute_loss returns the unweighted sum of the losses of
\* exactly the active tasks, each counted once, and loss_dict["loss"] is that
\* same total; an inactive task contributes nothing.
C7_LossIsSumOfActiveTasks ==
    (ret.op = "compute_loss" /\ AllTargetsPresent(batch)) =>
        /\ ret.status = "ok"
        /\ {ret.terms[n] : n \in DOMAIN ret.terms} = model.pretrain_tasks
        /\ Len(ret.terms) = Cardinality(model.pretrain_tasks)
        /\ ret.loss = SumOver([t \in DOMAIN ret.helper |-> ret.helper[t].loss],
                              DOMAIN ret.helper)
        /\ ret.loss_dict["loss"] = ret.loss

\* C8 (as claimed): every task of T owns one head, and compute_loss returns
\* a mapping with exactly one entry per task of T plus the key "loss".
C8_OneEntryPerTask ==
    (ret.op = "compute_loss" /\ AllTargetsPresent(batch)) =>
        /\ Cardinality(Heads(model.pretrain_tasks)) = Cardinality(model.pretrain_tasks)
        /\ ret.status = "ok"
        /\ "loss" \in DOMAIN ret.loss_dict
        /\ Cardinality(DOMAIN ret.loss_dict \ {"loss"}) = Cardinality(model.pretrain_tasks)
        /\ \A t \in model.pretrain_tasks \cap DOMAIN LossKey : LossKey[t] \in DOMAIN ret.loss_dict

\* C9 (as claimed): when an active task's target array is None, compute_loss
\* fails with a MissingTargetError.
C9_MissingTargetError ==
    (/\ ret.op = "compute_loss"
     /\ \E t \in model.pretrain_tasks \cap DOMAIN TargetOf : batch[TargetOf[t]] = None) =>
        ret.status = "MissingTargetError"

\* ------------------------------------ calls of compute_loss, dihedral task
\* Edge tables of the shape of a graph g with every choice of bonds between
\* distinct atoms, of angles between distinct bonds and of a dihedral.

Pairs(S) == {p \in S \X S : p[1] # p[2]}

DarArgs(g) ==
    {  [AtomBondGraph_edges |-> abg, BondAngleGraph_edges |-> bag,
        AngleDihedralGraph_edges |-> adg,
        atom_attr |-> [a \in DOMAIN g.atom_batch |-> 2 * a + 1],
        masked_atom_indices |-> None, masked_bond_indices |-> None,
        masked_angle_indices |-> None, masked_dihedral_indices |-> Some({0})]
       @@ [t \in Targets |-> Some(Scalars(TargetRows(g)[t], 1))]
       @@ GraphArgs(g) :
       abg \in [DOMAIN g.AtomBondGraph_edges -> Pairs(DOMAIN g.atom_batch)],
       bag \in [DOMAIN g.BondAngleGraph_edges -> Pairs(DOMAIN g.AtomBondGraph_edges)],
       adg \in [DOMAIN g.AngleDihedralGraph_edges ->
                   (DOMAIN g.BondAngleGraph_edges) \X (DOMAIN g.BondAngleGraph_edges)] }

InitDar ==
    /\ model = [without_dihedral |-> FALSE, n_layers |-> 1,
                atom_names |-> EncNames.atom_names, bond_names |-> EncNames.bond_names,
                pretrain_tasks |-> {"Dar"}]
    /\ batch \in DarArgs(Chain4)
    /\ ret = [op |-> "none"]

SpecDar == InitDar /\ [][NextLoss]_vars

\* C6: for every masked dihedral d whose two angles share their middle bond
\* (AngleDihedralGraph_edges[:, d] = (a1, a2), BondAngleGraph_edges[:, a1] =
\* (bond ij, bond jk), BondAngleGraph_edges[:, a2] = (bond jk, bond kl)), with
\* AtomBondGraph_edges[:, bond ij] = (i, j) and [:, bond kl] = (k, l), the row
\* fed to the dihedral head is the representations of i, j, k, l in that order.
C6_DarAtomOrder ==
    (ret.op = "compute_loss" /\ ret.status = "ok" /\ "Dar" \in DOMAIN ret.helper) =>
        \A d \in The(batch.masked_dihedral_indices) :
            LET a1 == batch.AngleDihedralGraph_edges[d][1]
                a2 == batch.AngleDihedralGraph_edges[d][2]
                ij == batch.BondAngleGraph_edges[a1][1]
                kl == batch.BondAngleGraph_edges[a2][2]
                i == batch.AtomBondGraph_edges[ij][1]
                j == batch.AtomBondGraph_edges[ij][2]
                k == batch.AtomBondGraph_edges[kl][1]
                l == batch.AtomBondGraph_edges[kl][2]
            IN batch.BondAngleGraph_edges[a1][2] = batch.BondAngleGraph_edges[a2][1] =>
                  /\ ret.helper["Dar"].atoms[d] = A0(<<i, j, k, l>>)
                  /\ ret.helper["Dar"].rows[d] =
                        A0(<<batch.atom_attr[i], batch.atom_attr[j],
                             batch.atom_attr[k], batch.atom_attr[l]>>)

\* the chain 0-1-2-3 with its bonds stored in another order, resolved to
\* the atoms 0, 1, 2, 3
C6_Witness ==
    /\ ret.op = "compute_loss" /\ ret.status = "ok"
    /\ batch.AtomBondGraph_edges = A0(<< <<2, 3>>, <<0, 1>>, <<1, 2>> >>)
    /\ batch.BondAngleGraph_edges = A0(<< <<2, 0>>, <<1, 2>> >>)
    /\ batch.AngleDihedralGraph_edges = A0(<< <<1, 0>> >>)
    /\ ret.helper["Dar"].atoms[0] = A0(<<0, 1, 2, 3>>)
    /\ ret.helper["Dar"].rows[0] = A0(<<1, 3, 5, 7>>)

\* ----------------------------------------------------- calls of EGEM.forward

EGEMTaskSets == {{"Blr"}, {"Blr", "Bar", "Dar"}, {"CM5", "WIBERG", "Adc"}}

EGEMModels ==
    {[without_dihedral |-> wd, n_layers |-> n, atom_names |-> EncNames.atom_names,
      bond_names |-> EncNames.bond_names, pretrain_tasks |-> T] :
        wd \in BOOLEAN, n \in 0..MaxLayers, T \in EGEMTaskSets}

EGEMBatches(g) ==
    {  [x |-> HotRows(Rows(g.atom_batch), EncNames.atom_names, hot),
        bond_attr |-> HotRows(Rows(g.AtomBondGraph_edges), EncNames.bond_names, {}),
        bond_lengths |-> Scalars(Rows(g.AtomBondGraph_edges), start),
        bond_angles |-> Scalars(Rows(g.BondAngleGraph_edges), start + 1),
        dihedral_angles |-> Scalars(g.n_dihedrals, start + 1),
        masked_atom_indices |-> ma, masked_bond_indices |-> mb,
        masked_angle_indices |-> mg, masked_dihedral_indices |-> md]
       @@ [t \in Targets |-> Some(Scalars(TargetRows(g)[t], start))]
       @@ GraphArgs(g) :
       hot \in {{}, {0}},
       start \in 0..MaxVal,
       ma \in {None, Some({0}), Some({1, 3})},
       mb \in {None, Some({1}), Some({0, 2})},
       mg \in {None, Some({0})},
       md \in {None, Some({0})} }

InitEGEM ==
    /\ model \in EGEMModels
    /\ batch \in EGEMBatches(Chain4)
    /\ ret = [op |-> "none"]

\* egem(AtomBondGraph_edges, ..., masked_dihedral_indices)
EGEMForward ==
    /\ ret.op = "none"
    /\ LET r == EGEM_forward(model, batch, CallerHeap(batch))
       IN /\ batch' = AfterCall(batch, r.heap)
          /\ ret' = [op |-> "EGEM_forward", args |-> CallerHeap(batch)]
                        @@ [f \in DOMAIN r \ {"heap"} |-> r[f]]
    /\ UNCHANGED model

NextEGEM == EGEMForward

SpecEGEM == InitEGEM /\ [][NextEGEM]_vars

\* the arrays over the values S that agree with t outside the index set m
VariantsOf(t, m, S) ==
    {t2 \in [DOMAIN t -> S] : \A r \in DOMAIN t : ~IsMasked(m, r) => t2[r] = t[r]}

\* the batches identical to b (with the tensors in) except for x, bond_attr
\* and bond_lengths at masked atom and bond indices, bond_angles at masked
\* angle indices and dihedral_angles at masked dihedral indices
MaskedVariants(self, b, in) ==
    {[b EXCEPT !.x = x2, !.bond_attr = ba2, !.bond_lengths = bl2, !.bond_angles = bg2,
               !.dihedral_angles = da2] :
        x2 \in VariantsOf(in.x, b.masked_atom_indices, CatRows(self.atom_names)),
        ba2 \in VariantsOf(in.bond_attr, b.masked_bond_indices, CatRows(self.bond_names)),
        bl2 \in VariantsOf(in.bond_lengths, b.masked_bond_indices, 0..MaxVal),
        bg2 \in VariantsOf(in.bond_angles, b.masked_angle_indices, 0..MaxVal),
        da2 \in VariantsOf(in.dihedral_angles, b.masked_dihedral_indices, 0..MaxVal)}

\* C10: in EGEM.forward, a batch that differs from the given one only in
\* masked values makes every embedding and RBF layer of the encoder (initial
\* and per layer) receive the same arrays, while the targets compute_loss
\* reads at the masked indices are the caller's original, unmasked values.
C10_MaskedValuesNeverEmbedded ==
    ret.op = "EGEM_forward" =>
        /\ \A b2 \in MaskedVariants(model, batch, ret.args) :
              encoder_forward(model, b2, CallerHeap(b2)).calls = ret.calls
        /\ ret.status = "ok" =>
              \A t \in DOMAIN ret.helper : \A d \in DOMAIN ret.helper[t].target :
                 ret.helper[t].target[d] =
                    IF TargetOf[t] \in ArgNames THEN ret.args[TargetOf[t]][d]
                    ELSE The(batch[TargetOf[t]])[d]

\* a run with masked atoms, bonds, angles and dihedrals in which the layers
\* received 0 for a masked bond length that another batch holds as 1, and
\* the bond-length target read back is the original 1
C10_Witness ==
    /\ ret.op = "EGEM_forward" /\ ret.status = "ok"
    /\ model.n_layers >= 1
    /\ batch.masked_atom_indices # None /\ batch.masked_angle_indices # None
    /\ batch.masked_dihedral_indices # None
    /\ batch.masked_bond_indices = Some({1})
    /\ ret.args.bond_lengths[1] = 1
    /\ ret.helper["Blr"].target[1] = 1
    /\ \A c \in DOMAIN ret.calls :
          ret.calls[c].layer.name \in {"init_bond_float_rbf", "bond_float_rbf_list"} =>
             ret.calls[c].input[1] = 0
    /\ \E b2 \in MaskedVariants(model, batch, ret.args) : b2.bond_lengths[1] = 0

\* --------------------------------------- the layers of the with-dihedral pass

\* what mask_attr hands to the layers for the arguments of the finished call
MaskedArgs ==
    mask_attr(model, ret.args, batch.masked_atom_indices, batch.masked_bond_indices,
              batch.masked_angle_indices, batch.masked_dihedral_indices).out

\* bond categorical and length inputs re-embedded with layer l's own tables
CurEdgeHidden(m, l) ==
    [r \in DOMAIN m.bond_attr |->
        AtomBondEmbedding(Inst("bond_embedding_list", l), m.bond_attr)[r]
        + FloatRBF(Inst("bond_float_rbf_list", l), m.bond_lengths)[r]]

\* C11: with dihedrals, for every layer l in 0..n_layers-1,
\* node_hidden[l+1] = Block(node_hidden[l], edge_hidden[l]) on the atom-bond
\* graph, edge_hidden[l+1] = Block(cur_edge_hidden, angle_hidden[l]) on the
\* bond-angle graph with cur_edge_hidden re-embedded by layer l's tables, and
\* angle_hidden[l+1] = Block(cur_angle_hidden, cur_dihedral_hidden) on the
\* angle-dihedral graph; node_repr, edge_repr and angle_repr are the entries
\* at index n_layers and dihedral_repr is the last layer's
\* cur_dihedral_hidden, which went through no block.
C11_LayerRecurrence ==
    (ret.op = "forward" /\ ~model.without_dihedral /\ model.n_layers >= 1) =>
        /\ ret.status = "ok"
        /\ DOMAIN ret.lists.node_hidden_list = 0..model.n_layers
        /\ DOMAIN ret.lists.edge_hidden_list = 0..model.n_layers
        /\ DOMAIN ret.lists.angle_hidden_list = 0..model.n_layers
        /\ \A l \in 0..(model.n_layers - 1) :
              /\ ret.lists.node_hidden_list[l + 1] =
                    EGeoGNNBlock(Inst("atom_bond_block_list", l), last_act(model, l),
                                 ret.lists.node_hidden_list[l], ret.lists.edge_hidden_list[l],
                                 batch.AtomBondGraph_edges, batch.atom_batch)
              /\ ret.lists.edge_hidden_list[l + 1] =
                    EGeoGNNBlock(Inst("bond_angle_block_list", l), last_act(model, l),
                                 CurEdgeHidden(MaskedArgs, l), ret.lists.angle_hidden_list[l],
                                 batch.BondAngleGraph_edges, ret.bond_batch)
              /\ ret.lists.angle_hidden_list[l + 1] =
                    EGeoGNNBlock(Inst("angle_dihedral_block_list", l), last_act(model, l),
                                 FloatRBF(Inst("bond_angle_float_rbf_list", l),
                                          MaskedArgs.bond_angles),
                                 FloatRBF(Inst("dihedral_angle_float_rbf_list", l),
                                          MaskedArgs.dihedral_angles),
                                 batch.AngleDihedralGraph_edges, ret.angle_batch)
        /\ ret.node_repr = ret.lists.node_hidden_list[model.n_layers]
        /\ ret.edge_repr = ret.lists.edge_hidden_list[model.n_layers]
        /\ ret.angle_repr = Some(ret.lists.angle_hidden_list[model.n_layers])
        /\ ret.dihedral_repr =
              Some(FloatRBF(Inst("dihedral_angle_float_rbf_list", model.n_layers - 1),
                            MaskedArgs.dihedral_angles))

\* two layers with dihedrals have run, and the re-embedded bond input of
\* layer 1 differs from the edge_hidden fed to layer 1's atom-bond block
C11_Witness ==
    /\ ret.op = "forward" /\ ~model.without_dihedral /\ model.n_layers = 2
    /\ ret.status = "ok"
    /\ ConsistentCounts(batch)
    /\ CurEdgeHidden(MaskedArgs, 1) # ret.lists.edge_hidden_list[1]
    /\ ret.edge_repr # ret.lists.edge_hidden_list[1]

\* ------------------------------------------ the variant without dihedrals

DihedralLayerNames == {"dihedral_angle_float_rbf_list", "angle_dihedral_block_list"}

\* the layer instances a finished forward call invoked
Invoked(r) ==
    {r.calls[k].layer : k \in DOMAIN r.calls} \cup {r.lists.blocks[k] : k \in DOMAIN r.lists.blocks}

\* the batches with k dihedrals that differ from b only in dihedral_angles,
\* AngleDihedralGraph_edges, num_angles and masked_dihedral_indices: any
\* dihedral values, b's own dihedral edges (when it has k of them) or edges
\* from angle 0 to itself, any valid mask, the last graph's angle count
\* raised by d
DihedralVariantsOf(b, k) ==
    {  [b EXCEPT !.dihedral_angles = da,
                 !.AngleDihedralGraph_edges = edges,
                 !.num_angles = Shifted(@, d),
                 !.masked_dihedral_indices = md] :
       edges \in {[r \in 0..(k - 1) |-> <<0, 0>>]}
                 \cup (IF k = Rows(b.AngleDihedralGraph_edges)
                       THEN {b.AngleDihedralGraph_edges} ELSE {}),
       d \in {0, 1},
       da \in Arr(k, 0..MaxVal),
       md \in Masks(k) }

DihedralVariants(b) ==
    UNION {DihedralVariantsOf(b, k) : k \in {0, 1, Rows(b.dihedral_angles)}}

\* C12: without dihedrals, node_repr, edge_repr and graph_repr are the same
\* for any two calls that differ only in dihedral_angles,
\* AngleDihedralGraph_edges, num_angles or masked_dihedral_indices, and the
\* model neither owns nor invokes a dihedral RBF or an angle-dihedral block.
C12_WithoutDihedralIgnoresDihedrals ==
    (ret.op = "forward" /\ model.without_dihedral) =>
        /\ ret.status = "ok"
        /\ \A inst \in OwnedLayers(model) : inst.name \notin DihedralLayerNames
        /\ \A inst \in Invoked(ret) : inst.name \notin DihedralLayerNames
        /\ Invoked(ret) \subseteq OwnedLayers(model)
        /\ \A b2 \in DihedralVariants(batch) :
              LET r2 == encoder_forward(model, b2, CallerHeap(b2))
              IN /\ r2.status = "ok"
                 /\ r2.node_repr = ret.node_repr
                 /\ r2.edge_repr = ret.edge_repr
                 /\ r2.graph_repr = ret.graph_repr

\* a two-layer model without dihedrals has returned for a batch with a
\* dihedral, and some variant differs from the batch in all four arguments
C12_Witness ==
    /\ ret.op = "forward" /\ model.without_dihedral /\ model.n_layers = 2
    /\ ret.status = "ok"
    /\ Rows(batch.dihedral_angles) >= 1
    /\ Invoked(ret) = OwnedLayers(model) \ {Inst("init_bond_angle_float_rbf", 0)}
    /\ \E b2 \in DihedralVariants(batch) :
          /\ b2.dihedral_angles # batch.dihedral_angles
          /\ b2.AngleDihedralGraph_edges # batch.AngleDihedralGraph_edges
          /\ b2.num_angles # batch.num_angles
          /\ b2.masked_dihedral_indices # batch.masked_dihedral_indices

\* --------------------------------------------------- batch index vectors

\* v holds graph index g exactly counts[g] times, in increasing order of g
IsBatchVector(v, counts, num_graphs) ==
    /\ DOMAIN v = 0..(Sum(counts) - 1)
    /\ \A i \in DOMAIN v : v[i] \in 0..(num_graphs - 1)
    /\ \A g \in 0..(num_graphs - 1) : Cardinality({i \in DOMAIN v : v[i] = g}) = counts[g]
    /\ \A i, j \in DOMAIN v : i <= j => v[i] <= v[j]

\* C13: bond_batch (resp. angle_batch) holds graph index g exactly
\* num_bonds[g] (resp. num_angles[g]) times in increasing order of g: it is
\* non-decreasing, of length sum(num_bonds) (resp. sum(num_angles)), and a
\* graph with count 0 contributes no entry.
C13_BatchVectors ==
    (ret.op = "forward" /\ ret.status = "ok") =>
        /\ IsBatchVector(ret.bond_batch, batch.num_bonds, batch.num_graphs)
        /\ ~model.without_dihedral =>
              IsBatchVector(ret.angle_batch, batch.num_angles, batch.num_graphs)

\* two graphs, the first with no angle: angle_batch holds only graph 1 and
\* bond_batch holds both graphs
C13_Witness ==
    /\ ret.op = "forward" /\ ret.status = "ok" /\ ~model.without_dihedral
    /\ batch.num_graphs = 2
    /\ batch.num_angles[0] = 0 /\ batch.num_angles[1] >= 1
    /\ Rows(ret.angle_batch) >= 1
    /\ \A i \in DOMAIN ret.angle_batch : ret.angle_batch[i] = 1
    /\ {ret.bond_batch[i] : i \in DOMAIN ret.bond_batch} = {0, 1}
    /\ Rows(ret.bond_batch) >= 3

\* ------------------------------------------- sequences of calls on one model

MaxCalls == 3

\* compute_loss dropping from self.pretrain_tasks a task whose target is None
SelfAfterCallDroppingTask(self, op, b) ==
    IF op = "compute_loss"
    THEN [self EXCEPT !.pretrain_tasks =
             {t \in @ : t \in DOMAIN TargetOf => b[TargetOf[t]] # None}]
    ELSE self

\* the module object after a call of forward, mask_attr or compute_loss with
\* the arguments b: none of the three assigns an attribute of self
SelfAfterCall(self, op, b) == self

CallTaskSets == {{"Blr"}, {"CM5", "WIBERG"}}

\* a constructed EGEM with its encoder
CallModels ==
    {[without_dihedral |-> wd, n_layers |-> n, latent_size |-> 4,
      atom_names |-> EncNames.atom_names, bond_names |-> EncNames.bond_names,
      pretrain_tasks |-> T] :
        wd \in BOOLEAN, n \in 1..MaxLayers, T \in CallTaskSets}

\* arguments of forward and of mask_attr: consistent batches with atom 0
\* masked
CallBatches ==
    {b \in EncBatchesOf(Chain4) :
        /\ ConsistentCounts(b) /\ b.masked_atom_indices # None
        /\ \A a \in DOMAIN b.x : a > 1 => b.x[a][0] = 0}

\* arguments of compute_loss: every target present, or bond_lengths missing
CallLossArgs ==
    {a \in LossArgs(Chain4) : \A t \in Targets \ {"bond_lengths"} : a[t] # None}

\* reading self.<name>: the attributes are the fields __init__ assigned
GetAttr(self, name) ==
    IF name \in DOMAIN self THEN [status |-> "ok", value |-> self[name]]
    ELSE [status |-> "AttributeError", name |-> name]

\* the properties node_dim and graph_dim: return self.embed_dim
node_dim(self) == GetAttr(self, "embed_dim")
graph_dim(self) == GetAttr(self, "embed_dim")

\* what a call hands back, the heap apart
Returned(r) == [f \in DOMAIN r \ {"heap"} |-> r[f]]

InitCalls ==
    /\ model \in CallModels
    /\ batch = NoGraph @@ NoTargets
    /\ ret = [op |-> "none", n |-> 0]

\* model.compound_encoder(AtomBondGraph_edges, ..., masked_dihedral_indices)
CallForward ==
    /\ ret.n < MaxCalls
    /\ \E b \in CallBatches :
          LET r == encoder_forward(model, b, CallerHeap(b))
          IN /\ batch' = AfterCall(b, r.heap)
             /\ ret' = [op |-> "forward", prev |-> ret.op, n |-> ret.n + 1, call |-> b,
                        result |-> Returned(r)]
             /\ model' = SelfAfterCall(model, "forward", b)

\* model.compound_encoder.mask_attr(x, ..., masked_dihedral_indices)
CallMaskAttr ==
    /\ ret.n < MaxCalls
    /\ \E b \in CallBatches :
          LET r == mask_attr(model, CallerHeap(b), b.masked_atom_indices,
                             b.masked_bond_indices, b.masked_angle_indices,
                             b.masked_dihedral_indices)
          IN /\ batch' = AfterCall(b, r.heap)
             /\ ret' = [op |-> "mask_attr", prev |-> ret.op, n |-> ret.n + 1, call |-> b,
                        result |-> r.out]
             /\ model' = SelfAfterCall(model, "mask_attr", b)

\* model.compute_loss(atom_attr, ..., masked_dihedral_indices)
CallComputeLoss ==
    /\ ret.n < MaxCalls
    /\ \E a \in CallLossArgs :
          /\ batch' = a
          /\ ret' = [op |-> "compute_loss", prev |-> ret.op, n |-> ret.n + 1, call |-> a,
                     result |-> compute_loss(model, a)]
          /\ model' = SelfAfterCall(model, "compute_loss", a)

\* model.compound_encoder.node_dim
ReadNodeDim ==
    /\ ret.n < MaxCalls
    /\ ret' = [op |-> "node_dim", prev |-> ret.op, n |-> ret.n + 1,
               result |-> node_dim(model)]
    /\ model' = SelfAfterCall(model, "node_dim", batch)
    /\ UNCHANGED batch

\* model.compound_encoder.graph_dim
ReadGraphDim ==
    /\ ret.n < MaxCalls
    /\ ret' = [op |-> "graph_dim", prev |-> ret.op, n |-> ret.n + 1,
               result |-> graph_dim(model)]
    /\ model' = SelfAfterCall(model, "graph_dim", batch)
    /\ UNCHANGED batch

NextCalls == CallForward \/ CallMaskAttr \/ CallComputeLoss \/ ReadNodeDim \/ ReadGraphDim

SpecCalls == InitCalls /\ [][NextCalls]_vars

C15_DimsAreLatentSize ==
    ret.op \in {"node_dim", "graph_dim"} =>
        /\ ret.result.status = "ok"
        /\ ret.result.value = model.latent_size

\* ------------------------------- reach of the angle and dihedral inputs

MaxReachLayers == 3

ReachModels ==
    {[without_dihedral |-> FALSE, n_layers |-> n, atom_names |-> EncNames.atom_names,
      bond_names |-> EncNames.bond_names, pretrain_tasks |-> {}] : n \in 0..MaxReachLayers}

InitReach ==
    /\ model \in ReachModels
    /\ \E g \in Graphs : batch \in {b \in EncBatchesOf(g) : ConsistentCounts(b)}
    /\ ret = [op |-> "none"]

SpecReach == InitReach /\ [][NextEnc]_vars

\* the edge table e, or one of the same length whose edges all run from
\* node 0 to itself
EdgeChoices(e) == {e, [r \in DOMAIN e |-> <<0, 0>>]}

\* the scalars t, or others of the same length
ScalarChoices(t) == {t} \cup {Scalars(Rows(t), start) : start \in 0..MaxVal}

\* the batches that differ from b at most in bond_angles,
\* BondAngleGraph_edges, dihedral_angles and AngleDihedralGraph_edges
GeometryVariants(b) ==
    {  [b EXCEPT !.bond_angles = bg, !.BondAngleGraph_edges = bag,
                 !.dihedral_angles = da, !.AngleDihedralGraph_edges = adg] :
       bg \in ScalarChoices(b.bond_angles), bag \in EdgeChoices(b.BondAngleGraph_edges),
       da \in ScalarChoices(b.dihedral_angles),
       adg \in EdgeChoices(b.AngleDihedralGraph_edges) }

\* two calls raise the same error or return the same node_repr and graph_repr
SameNodeAndGraphRepr(r1, r2) ==
    /\ r1.status = r2.status
    /\ r1.status = "ok" => r1.node_repr = r2.node_repr /\ r1.graph_repr = r2.graph_repr

\* C16: with dihedrals, two batches that differ only in dihedral_angles and
\* AngleDihedralGraph_edges give the same node_repr and graph_repr when
\* n_layers < 3, two that differ only in those and in bond_angles and
\* BondAngleGraph_edges give the same when n_layers < 2, and for every
\* n_layers node_repr is the last atom-bond block applied to the lists'
\* entries before the last layer, so the last layer's bond-angle and
\* angle-dihedral blocks have no part in node_repr or graph_repr.
C16_ReachOfGeometry ==
    (ret.op = "forward" /\ ~model.without_dihedral) =>
        /\ \A b2 \in GeometryVariants(batch) :
              LET r2 == encoder_forward(model, b2, CallerHeap(b2))
                  same_angles == /\ b2.bond_angles = batch.bond_angles
                                 /\ b2.BondAngleGraph_edges = batch.BondAngleGraph_edges
              IN /\ (model.n_layers < 3 /\ same_angles) => SameNodeAndGraphRepr(ret, r2)
                 /\ model.n_layers < 2 => SameNodeAndGraphRepr(ret, r2)
        /\ (ret.status = "ok" /\ model.n_layers >= 1) =>
              /\ ret.node_repr =
                    EGeoGNNBlock(Inst("atom_bond_block_list", model.n_layers - 1),
                                 last_act(model, model.n_layers - 1),
                                 ret.lists.node_hidden_list[model.n_layers - 1],
                                 ret.lists.edge_hidden_list[model.n_layers - 1],
                                 batch.AtomBondGraph_edges, batch.atom_batch)
              /\ ret.graph_repr = Pool(ret.node_repr, batch.atom_batch, batch.num_graphs)

\* a two-layer call has returned; a batch differing only in its dihedral
\* angle gives the same node_repr, one differing only in its bond angles
\* gives another
C16_Witness ==
    /\ ret.op = "forward" /\ ~model.without_dihedral /\ model.n_layers = 2
    /\ ret.status = "ok"
    /\ \E b2 \in GeometryVariants(batch) :
          /\ b2.dihedral_angles # batch.dihedral_angles
          /\ b2.bond_angles = batch.bond_angles
          /\ b2.BondAngleGraph_edges = batch.BondAngleGraph_edges
          /\ encoder_forward(model, b2, CallerHeap(b2)).node_repr = ret.node_repr
    /\ \E b3 \in GeometryVariants(batch) :
          /\ b3.bond_angles # batch.bond_angles
          /\ b3.dihedral_angles = batch.dihedral_angles
          /\ b3.BondAngleGraph_edges = batch.BondAngleGraph_edges
          /\ b3.AngleDihedralGraph_edges = batch.AngleDihedralGraph_edges
          /\ encoder_forward(model, b3, CallerHeap(b3)).node_repr # ret.node_repr

====
